---- MODULE Spec2Model ----
(***************************************************************************)
(* Model of app.py: the Flask handler generate_video_json and the pure     *)
(* translation apply_ai_video_editing_logic that turns the front-end body  *)
(* into the video-instruction JSON.                                        *)
(*                                                                         *)
(* JSON values are modelled as follows.                                    *)
(*   - an object is a function from its keys to values; an absent key is   *)
(*     absent from the DOMAIN, and dict.get(k, d) is Get(o, k, d);         *)
(*   - a value that the code calls .get on is tagged: kind "obj" for an    *)
(*     object, kind "other" for any JSON value without a .get method       *)
(*     (null, number, string, list);                                       *)
(*   - a value that the code iterates is tagged: kind "list" for a list,   *)
(*     kind "null" for a value that is not iterable;                       *)
(*   - a url is a string; "" is the empty string and None the Python None  *)
(*     that dict.get returns for an absent key (both are falsy);           *)
(*   - a duration is tagged num: a number can be added to current_time,    *)
(*     anything else raises TypeError at the addition. Numbers are         *)
(*     integers (seconds); floating-point rounding is not modelled.        *)
(* Fields that the code copies through without looking at them (volume,    *)
(* description, start_time of a sound effect, language, niche, resolution, *)
(* input_type, ai_enhancements, transition_duration) are left out.         *)
(***************************************************************************)
EXTENDS Integers, Sequences, FiniteSets, TLC

\* ------------------------------------------------------------------ bounds
MaxScenes == 2
MaxMedia == 2
MaxSfx == 2

\* ------------------------------------------------------- program constants
DefaultVideoDuration == 60
DefaultSceneDuration == 5
FirstCounter == 1
StartTime == 0
StatusOk == 200
StatusBadRequest == 400
StatusServerError == 500

\* ------------------------------------------------------------- JSON values
None == "<None>"
EmptyObject == [k \in {} |-> ""]

Get(o, k, d) == IF k \in DOMAIN o THEN o[k] ELSE d

Obj(f) == [kind |-> "obj", f |-> f]
NonObj == [kind |-> "other", f |-> EmptyObject]
List(s) == [kind |-> "list", items |-> s]
NotIterable == [kind |-> "null", items |-> <<>>]
Num(n) == [num |-> TRUE, v |-> n]
NotNum == [num |-> FALSE, v |-> 0]

\* Python truthiness of a url value: None and "" are falsy.
TruthyAlways(u) == TRUE
Truthy(u) == u \notin {None, ""}

\* f"{prefix}_{n}": the prefixes bg_music, sfx, media, vo, scene are such that
\* two formatted ids are equal exactly when prefix and number are equal.
AssetId(prefix, n) == [p |-> prefix, n |-> n]

SceneIdZeroBased(i) == AssetId("scene", i)
SceneId(i) == AssetId("scene", i + 1)

\* --------------------------------------------- apply_ai_video_editing_logic
\* The locals of one call: output_json, the time cursor, the id counters and
\* the positions of the two top-level loops.
NewFrame(fd) ==
    [ out |-> [ duration_seconds |-> Get(fd, "video_duration", DefaultVideoDuration),
                media_assets |-> <<>>,
                voiceover |-> <<>>,
                background_music |-> EmptyObject,
                sound_effects |-> <<>>,
                timeline |-> <<>> ],
      current_time |-> StartTime,
      asset_id_counter |-> FirstCounter,
      voiceover_id_counter |-> FirstCounter,
      sfx_id_counter |-> FirstCounter,
      sfx_i |-> 0,
      scene_i |-> 0 ]

NoFrame == NewFrame(EmptyObject)

ProcessBackgroundMusic(fd, fr) ==
    LET url == Get(fd, "background_music_url", None)
        id == AssetId("bg_music", fr.asset_id_counter)
    IN  IF Truthy(url)
        THEN [fr EXCEPT
                !.out.media_assets = Append(@, [id |-> id, type |-> "audio", url |-> url]),
                !.out.background_music = [asset_id |-> id, url |-> url],
                !.asset_id_counter = @ + 1]
        ELSE fr

SfxRaises(sfx_data) == sfx_data.kind # "obj"

ProcessSfxNoIncrement(sfx_data, fr) ==
    LET url == Get(sfx_data.f, "url", None)
        id == AssetId("sfx", fr.sfx_id_counter)
    IN  IF Truthy(url)
        THEN [fr EXCEPT
                !.out.media_assets = Append(@, [id |-> id, type |-> "audio", url |-> url]),
                !.out.sound_effects = Append(@, [asset_id |-> id, url |-> url]),
                !.sfx_i = @ + 1]
        ELSE [fr EXCEPT !.sfx_i = @ + 1]

ProcessSfx(sfx_data, fr) ==
    LET url == Get(sfx_data.f, "url", None)
        id == AssetId("sfx", fr.sfx_id_counter)
    IN  IF Truthy(url)
        THEN [fr EXCEPT
                !.out.media_assets = Append(@, [id |-> id, type |-> "audio", url |-> url]),
                !.out.sound_effects = Append(@, [asset_id |-> id, url |-> url]),
                !.sfx_id_counter = @ + 1,
                !.sfx_i = @ + 1]
        ELSE [fr EXCEPT !.sfx_i = @ + 1]

\* The inner loop over scene_data["media"], from item k on; acc holds the
\* media_assets list, the scene's visual_elements and asset_id_counter.
RECURSIVE ProcessMedia(_, _, _, _)
ProcessMedia(items, k, scene_duration, acc) ==
    IF k > Len(items) THEN acc
    ELSE LET url == Get(items[k].f, "url", None)
             id == AssetId("media", acc.counter)
             nxt == IF Truthy(url)
                    THEN [ assets |-> Append(acc.assets,
                                [id |-> id, type |-> Get(items[k].f, "type", "image"),
                                 url |-> url]),
                           visual |-> Append(acc.visual,
                                [asset_id |-> id, type |-> "main_clip",
                                 duration_in_scene |-> scene_duration]),
                           counter |-> acc.counter + 1 ]
                    ELSE acc
         IN  ProcessMedia(items, k + 1, scene_duration, nxt)

SceneMedia(scene_data) == Get(scene_data.f, "media", List(<<>>))
SceneDuration(scene_data) == Get(scene_data.f, "duration", Num(DefaultSceneDuration))

\* One iteration of the scene loop raises when scene_data has no .get, when
\* its media value cannot be iterated, when a media item has no .get, or when
\* its duration cannot be added to current_time.
\* The code raises part-way through the iteration, after it may have appended
\* to output_json; the handler drops output_json on any exception, so the
\* iteration is modelled as raising before it changes the locals.
SceneRaises(scene_data) ==
    \/ scene_data.kind # "obj"
    \/ SceneMedia(scene_data).kind # "list"
    \/ \E k \in 1..Len(SceneMedia(scene_data).items) :
           SceneMedia(scene_data).items[k].kind # "obj"
    \/ ~SceneDuration(scene_data).num

\* One iteration of the scene loop that does not raise; i is enumerate's index.
ProcessScene(i, scene_data, fr) ==
    LET scene_script == Get(scene_data.f, "script", "")
        scene_duration == SceneDuration(scene_data).v
        transition_type == Get(scene_data.f, "transition_type", "cut")
        m == ProcessMedia(SceneMedia(scene_data).items, 1, scene_duration,
                          [assets |-> fr.out.media_assets, visual |-> <<>>,
                           counter |-> fr.asset_id_counter])
        voiceover_url == Get(scene_data.f, "audio_url", None)
        vo_id == AssetId("vo", fr.voiceover_id_counter)
        has_vo == Truthy(voiceover_url)
        assets == IF has_vo
                  THEN Append(m.assets, [id |-> vo_id, type |-> "audio", url |-> voiceover_url])
                  ELSE m.assets
        voiceover == IF has_vo
                     THEN Append(fr.out.voiceover,
                                 [id |-> vo_id, text_segment |-> scene_script,
                                  url |-> voiceover_url,
                                  start_time_seconds |-> fr.current_time,
                                  duration_seconds |-> scene_duration])
                     ELSE fr.out.voiceover
        audio_elements == IF has_vo THEN <<[asset_id |-> vo_id, type |-> "voiceover"]>>
                          ELSE <<>>
        entry == [ type |-> "scene",
                   id |-> SceneId(i),
                   start_time_seconds |-> fr.current_time,
                   duration_seconds |-> scene_duration,
                   script |-> scene_script,
                   visual_elements |-> m.visual,
                   audio_elements |-> audio_elements,
                   transition_type |-> transition_type ]
    IN  [fr EXCEPT
            !.out.media_assets = assets,
            !.out.voiceover = voiceover,
            !.out.timeline = Append(@, entry),
            !.asset_id_counter = m.counter,
            !.voiceover_id_counter = IF has_vo THEN @ + 1 ELSE @,
            !.current_time = @ + scene_duration,
            !.scene_i = @ + 1]

SoundEffects(fd) == Get(fd, "sound_effects", List(<<>>))
Scenes(fd) == Get(fd, "scenes", List(<<>>))

\* ------------------------------------------------------------------- state
\* request[r]  the HTTP request r: its Content-Type (is_json), whether its
\*             body parses as JSON (parse_ok) and the parsed body (data);
\* pc[r]       the position of the thread that serves request r;
\* frame[r]    the locals of r's call of apply_ai_video_editing_logic;
\* resp[r]     the response sent for r.
VARIABLES request, pc, frame, resp

vars == <<request, pc, frame, resp>>

Reqs == {1, 2}

NoRequest == [is_json |-> FALSE, parse_ok |-> FALSE, data |-> NonObj]
NoResponse == [status |-> 0]

\* Each call has its own locals: request r works on frame r.
FrameOfShared(r) == 1
FrameOf(r) == r

Fd(r) == request[r].data.f
Fr(r) == frame[FrameOf(r)]

ErrorResponseLeaky(fr) ==
    [status |-> StatusServerError,
     error |-> "Error interno al generar las instrucciones de video.",
     json |-> fr.out]
ErrorResponse(fr) ==
    [status |-> StatusServerError,
     error |-> "Error interno al generar las instrucciones de video."]

\* generate_video_json up to the call: the Content-Type check and get_json(),
\* which answers 400 (werkzeug BadRequest) when the body does not parse.
Receive(r) ==
    /\ pc[r] = "recv"
    /\ IF ~request[r].is_json
       THEN /\ resp' = [resp EXCEPT ![r] =
                    [status |-> StatusBadRequest,
                     error |-> "Content-Type must be application/json"]]
            /\ pc' = [pc EXCEPT ![r] = "done"]
       ELSE IF ~request[r].parse_ok
       THEN /\ resp' = [resp EXCEPT ![r] =
                    [status |-> StatusBadRequest, error |-> "Bad Request"]]
            /\ pc' = [pc EXCEPT ![r] = "done"]
       ELSE /\ pc' = [pc EXCEPT ![r] = "begin"]
            /\ UNCHANGED resp
    /\ UNCHANGED <<request, frame>>

\* The call's first statements: frontend_data.get raises when the body is not
\* an object; otherwise output_json and the counters are initialised.
Begin(r) ==
    /\ pc[r] = "begin"
    /\ IF request[r].data.kind # "obj"
       THEN /\ pc' = [pc EXCEPT ![r] = "except"]
            /\ UNCHANGED frame
       ELSE /\ frame' = [frame EXCEPT ![FrameOf(r)] = NewFrame(Fd(r))]
            /\ pc' = [pc EXCEPT ![r] = "bgm"]
    /\ UNCHANGED <<request, resp>>

BackgroundMusic(r) ==
    /\ pc[r] = "bgm"
    /\ frame' = [frame EXCEPT ![FrameOf(r)] = ProcessBackgroundMusic(Fd(r), Fr(r))]
    /\ pc' = [pc EXCEPT ![r] = "sfx"]
    /\ UNCHANGED <<request, resp>>

\* One turn of "for sfx_data in frontend_data.get('sound_effects', [])".
SoundEffect(r) ==
    /\ pc[r] = "sfx"
    /\ LET v == SoundEffects(Fd(r))
           k == Fr(r).sfx_i + 1
       IN  IF v.kind # "list"
           THEN /\ pc' = [pc EXCEPT ![r] = "except"]
                /\ UNCHANGED frame
           ELSE IF k > Len(v.items)
           THEN /\ pc' = [pc EXCEPT ![r] = "scenes"]
                /\ UNCHANGED frame
           ELSE IF SfxRaises(v.items[k])
           THEN /\ pc' = [pc EXCEPT ![r] = "except"]
                /\ UNCHANGED frame
           ELSE /\ frame' = [frame EXCEPT ![FrameOf(r)] = ProcessSfx(v.items[k], Fr(r))]
                /\ UNCHANGED pc
    /\ UNCHANGED <<request, resp>>

\* One turn of "for i, scene_data in enumerate(frontend_data.get('scenes', []))".
Scene(r) ==
    /\ pc[r] = "scenes"
    /\ LET v == Scenes(Fd(r))
           i == Fr(r).scene_i
       IN  IF v.kind # "list"
           THEN /\ pc' = [pc EXCEPT ![r] = "except"]
                /\ UNCHANGED frame
           ELSE IF i + 1 > Len(v.items)
           THEN /\ pc' = [pc EXCEPT ![r] = "respond"]
                /\ UNCHANGED frame
           ELSE IF SceneRaises(v.items[i + 1])
           THEN /\ pc' = [pc EXCEPT ![r] = "except"]
                /\ UNCHANGED frame
           ELSE /\ frame' = [frame EXCEPT ![FrameOf(r)] =
                                 ProcessScene(i, v.items[i + 1], Fr(r))]
                /\ UNCHANGED pc
    /\ UNCHANGED <<request, resp>>

\* return jsonify(video_instructions_json), 200
Respond(r) ==
    /\ pc[r] = "respond"
    /\ resp' = [resp EXCEPT ![r] = [status |-> StatusOk, json |-> Fr(r).out]]
    /\ pc' = [pc EXCEPT ![r] = "done"]
    /\ UNCHANGED <<request, frame>>

\* except Exception: the generic 500 answer.
HandleException(r) ==
    /\ pc[r] = "except"
    /\ resp' = [resp EXCEPT ![r] = ErrorResponse(Fr(r))]
    /\ pc' = [pc EXCEPT ![r] = "done"]
    /\ UNCHANGED <<request, frame>>

Next ==
    \E r \in Reqs :
        \/ Receive(r)
        \/ Begin(r)
        \/ BackgroundMusic(r)
        \/ SoundEffect(r)
        \/ Scene(r)
        \/ Respond(r)
        \/ HandleException(r)

\* ------------------------------------------ the handler as one sequential run
\* The two top-level loops run to their end from the frame's loop position;
\* raised tells that an iteration raised.
RECURSIVE RunSoundEffects(_, _)
RunSoundEffects(items, fr) ==
    IF fr.sfx_i + 1 > Len(items) THEN [raised |-> FALSE, fr |-> fr]
    ELSE IF SfxRaises(items[fr.sfx_i + 1]) THEN [raised |-> TRUE, fr |-> fr]
    ELSE RunSoundEffects(items, ProcessSfx(items[fr.sfx_i + 1], fr))

RECURSIVE RunScenes(_, _)
RunScenes(items, fr) ==
    IF fr.scene_i + 1 > Len(items) THEN [raised |-> FALSE, fr |-> fr]
    ELSE IF SceneRaises(items[fr.scene_i + 1]) THEN [raised |-> TRUE, fr |-> fr]
    ELSE RunScenes(items, ProcessScene(fr.scene_i, items[fr.scene_i + 1], fr))

ApplyAiVideoEditingLogic(data) ==
    IF data.kind # "obj" THEN [raised |-> TRUE, fr |-> NoFrame]
    ELSE LET f0 == ProcessBackgroundMusic(data.f, NewFrame(data.f))
         IN  IF SoundEffects(data.f).kind # "list" THEN [raised |-> TRUE, fr |-> f0]
             ELSE LET a == RunSoundEffects(SoundEffects(data.f).items, f0)
                  IN  IF a.raised \/ Scenes(data.f).kind # "list"
                      THEN [raised |-> TRUE, fr |-> a.fr]
                      ELSE RunScenes(Scenes(data.f).items, a.fr)

GenerateVideoJson(req) ==
    IF ~req.is_json
    THEN [status |-> StatusBadRequest, error |-> "Content-Type must be application/json"]
    ELSE IF ~req.parse_ok
    THEN [status |-> StatusBadRequest, error |-> "Bad Request"]
    ELSE LET res == ApplyAiVideoEditingLogic(req.data)
         IN  IF res.raised THEN ErrorResponse(res.fr)
             ELSE [status |-> StatusOk, json |-> res.fr.out]

\* ------------------------------------------------------------------ inputs
SeqsUpTo(S, n) == UNION {[1..k -> S] : k \in 0..n}
Opt(k, vals) == {EmptyObject} \cup {k :> v : v \in vals}
Join(A, B) == {a @@ b : a \in A, b \in B}

\* Scenes that differ in script, duration, transition and narration.
TimelineScenes ==
    {Obj(f) : f \in Join(Opt("script", {"s1"}),
                    Join(Opt("duration", {Num(3)}),
                    Join(Opt("transition_type", {"fade"}),
                         Opt("audio_url", {"v1"}))))}

TimelineBodies ==
    {Obj(a @@ ("scenes" :> List(s))) :
        a \in Opt("video_duration", {8}), s \in SeqsUpTo(TimelineScenes, MaxScenes)}

\* A url that is not there: the key is absent (None) or its value is "".
UrlField(k, falsy, u) ==
    {IF falsy = None THEN EmptyObject ELSE k :> falsy, k :> u}

UrlItems(falsy) == {Obj(f) : f \in UrlField("url", falsy, "m1")}

\* Scenes that differ in their media items.
MediaScenes(falsy) ==
    {Obj("media" :> List(m)) : m \in SeqsUpTo(UrlItems(falsy), MaxMedia)}

\* Scenes that differ in narration, with no, one or two media items.
NarratedScenes(falsy) ==
    {Obj(m @@ a) :
        m \in Opt("media", {List(<<Obj([url |-> "m1"])>>),
                            List(<<Obj(IF falsy = None THEN EmptyObject ELSE [url |-> falsy]),
                                   Obj([url |-> "m3"])>>)}),
        a \in UrlField("audio_url", falsy, "v1")}

AssetBodies ==
    UNION {{Obj(b @@ ("scenes" :> List(s))) :
                b \in Opt("background_music_url", {"b1"}),
                s \in SeqsUpTo(MediaScenes(falsy), MaxScenes)
                      \cup SeqsUpTo(NarratedScenes(falsy), MaxScenes)} : falsy \in {None, ""}}

RichScene ==
    Obj([script |-> "s2", duration |-> Num(4), audio_url |-> "v2",
         media |-> List(<<Obj([url |-> "m2", type |-> "video"])>>)])

\* Bodies that differ in background music and sound effects.
GlobalBodies ==
    {Obj(b @@ x @@ s) :
        b \in Opt("background_music_url", {"", "b1"}),
        x \in Opt("sound_effects",
                  {List(q) : q \in SeqsUpTo({Obj(f) : f \in Opt("url", {"", "x1"})}, MaxSfx)}),
        s \in Opt("scenes", {List(<<>>), List(<<RichScene>>)})}

\* Bodies with values of the wrong JSON type.
FaultScenes ==
    { NonObj, RichScene,
      Obj([duration |-> NotNum, audio_url |-> "v1"]),
      Obj([media |-> NotIterable]),
      Obj([media |-> List(<<Obj([url |-> "m1"]), NonObj>>)]) }

FaultBodies ==
    {NonObj} \cup
    {Obj(x @@ s) :
        x \in Opt("sound_effects",
                  {NotIterable, List(<<NonObj>>), List(<<Obj([url |-> "x1"]), NonObj>>)}),
        s \in Opt("scenes",
                  {NotIterable} \cup {List(q) : q \in SeqsUpTo(FaultScenes, MaxScenes)})}

Bodies == TimelineBodies \cup AssetBodies \cup GlobalBodies \cup FaultBodies

Requests ==
    {[is_json |-> TRUE, parse_ok |-> TRUE, data |-> d] : d \in Bodies}
    \cup {[is_json |-> TRUE, parse_ok |-> FALSE, data |-> NonObj]}
    \cup {[is_json |-> FALSE, parse_ok |-> p, data |-> d] :
              p \in BOOLEAN, d \in {NonObj, Obj([scenes |-> List(<<RichScene>>)])}}

\* Two requests served at the same time draw their bodies from this set.
ConcRequests ==
    {[is_json |-> TRUE, parse_ok |-> TRUE, data |-> d] :
        d \in { NonObj,
                Obj(EmptyObject),
                Obj([background_music_url |-> "b1",
                     sound_effects |-> List(<<Obj([url |-> "x1"])>>),
                     scenes |-> List(<<RichScene, Obj([media |-> List(<<Obj([url |-> "m1"])>>)])>>)]),
                Obj([video_duration |-> 8,
                     scenes |-> List(<<Obj([audio_url |-> "v1"]), RichScene>>)]),
                Obj([scenes |-> List(<<RichScene, NonObj>>)]) }}
    \cup {[is_json |-> FALSE, parse_ok |-> TRUE, data |-> NonObj]}

\* ---------------------------------------------------------- specifications
\* One request is served; the other never arrives.
Init ==
    /\ request \in {[r \in Reqs |-> IF r = 1 THEN q ELSE NoRequest] : q \in Requests}
    /\ pc = [r \in Reqs |-> IF r = 1 THEN "recv" ELSE "idle"]
    /\ frame = [r \in Reqs |-> NoFrame]
    /\ resp = [r \in Reqs |-> NoResponse]

Spec == Init /\ [][Next]_vars

\* Two requests are served by two threads, their steps interleaved.
InitConc ==
    /\ request \in [Reqs -> ConcRequests]
    /\ pc = [r \in Reqs |-> "recv"]
    /\ frame = [r \in Reqs |-> NoFrame]
    /\ resp = [r \in Reqs |-> NoResponse]

SpecConc == InitConc /\ [][Next]_vars

\* ------------------------------------------------------------- properties
\* What the properties say about a request is read off the request itself.
Served(r) == pc[r] = "done"
Parsed(r) == request[r].is_json /\ request[r].parse_ok
Ok(r) == Served(r) /\ resp[r].status = StatusOk
InScenes(r) == Get(Fd(r), "scenes", List(<<>>)).items
UrlGiven(o, k) == k \in DOMAIN o /\ o[k] # ""
GenericError == [status |-> 500, error |-> "Error interno al generar las instrucciones de video."]

\* A value of the wrong JSON type somewhere the translation looks.
HasFault(data) ==
    \/ data.kind # "obj"
    \/ /\ "sound_effects" \in DOMAIN data.f
       /\ \/ data.f.sound_effects.kind # "list"
          \/ \E x \in 1..Len(data.f.sound_effects.items) :
                 data.f.sound_effects.items[x].kind # "obj"
    \/ /\ "scenes" \in DOMAIN data.f
       /\ \/ data.f.scenes.kind # "list"
          \/ \E i \in 1..Len(data.f.scenes.items) :
                LET sc == data.f.scenes.items[i]
                IN  \/ sc.kind # "obj"
                    \/ "duration" \in DOMAIN sc.f /\ ~sc.f.duration.num
                    \/ /\ "media" \in DOMAIN sc.f
                       /\ \/ sc.f.media.kind # "list"
                          \/ \E k \in 1..Len(sc.f.media.items) :
                                 sc.f.media.items[k].kind # "obj"

\* C1: every served request whose JSON object body has no "scenes" key is
\* answered with status 400.
C1_MissingScenesRejected ==
    \A r \in Reqs :
        (Served(r) /\ Parsed(r) /\ request[r].data.kind = "obj"
            /\ "scenes" \notin DOMAIN Fd(r))
        => resp[r].status = StatusBadRequest

\* C5: a request has a response exactly when it has been served; the status
\* is 200, 400 or 500; a request that is not JSON gets 400; a request whose
\* body makes the translation raise gets exactly the generic 500 body (no
\* output in it), and only a request without such a fault gets 200.
C5_FaultsAnswered ==
    \A r \in Reqs :
        /\ Served(r) <=> resp[r] # NoResponse
        /\ Served(r) =>
            /\ resp[r].status \in {200, 400, 500}
            /\ ~Parsed(r) => resp[r].status = 400
            /\ (Parsed(r) /\ HasFault(request[r].data)) => resp[r] = GenericError
            /\ (Parsed(r) /\ ~HasFault(request[r].data)) => resp[r].status = 200

\* A request whose second scene is not an object, after a first scene that
\* was translated, has been answered with 500.
C5_Witness ==
    \E r \in Reqs :
        /\ Served(r) /\ Parsed(r) /\ request[r].data.kind = "obj"
        /\ resp[r].status = 500
        /\ frame[r].scene_i = 1
        /\ Len(InScenes(r)) = 2 /\ InScenes(r)[2].kind # "obj"

\* C6: in every 200 response the timeline has one entry per input scene, in
\* input order: entry i has id scene_i and the script, duration and
\* transition type of input scene i (the defaults "", 5, "cut" when absent).
C6_SceneOrderPreserved ==
    \A r \in Reqs :
        Ok(r) =>
            LET sc == InScenes(r)
                tl == resp[r].json.timeline
            IN  /\ Len(tl) = Len(sc)
                /\ \A i \in 1..Len(sc) :
                      /\ tl[i].id = [p |-> "scene", n |-> i]
                      /\ tl[i].script = Get(sc[i].f, "script", "")
                      /\ tl[i].duration_seconds = Get(sc[i].f, "duration", Num(5)).v
                      /\ tl[i].transition_type = Get(sc[i].f, "transition_type", "cut")

\* Two different scenes, the second one without media and narration, have
\* been translated.
C6_Witness ==
    \E r \in Reqs :
        /\ Ok(r)
        /\ Len(InScenes(r)) = 2
        /\ InScenes(r)[1] # InScenes(r)[2]
        /\ DOMAIN InScenes(r)[2].f \cap {"media", "audio_url"} = {}
        /\ Len(resp[r].json.timeline) = 2

MediaWithUrl(sc) ==
    {k \in 1..Len(Get(sc.f, "media", List(<<>>)).items) :
        UrlGiven(Get(sc.f, "media", List(<<>>)).items[k].f, "url")}

AllMediaWithUrl(sc) ==
    UNION {{<<i, k>> : k \in MediaWithUrl(sc[i])} : i \in 1..Len(sc)}

\* C7: a request without a wrongly typed value succeeds, and in its output
\* every scene has as many visual elements as it has media items with a
\* non-empty url (none: an empty list), media_assets has exactly one "media"
\* entry per such item, and the media ids are numbered without gaps after the
\* background music's id.
C7_MediaWithoutUrlSkipped ==
    \A r \in Reqs :
        (Served(r) /\ Parsed(r) /\ ~HasFault(request[r].data)) =>
            /\ resp[r].status = 200
            /\ LET sc == InScenes(r)
                   out == resp[r].json
                   ma == SelectSeq(out.media_assets, LAMBDA a : a.id.p = "media")
                   base == IF UrlGiven(Fd(r), "background_music_url") THEN 1 ELSE 0
               IN  /\ Len(out.timeline) = Len(sc)
                   /\ \A i \in 1..Len(sc) :
                         Len(out.timeline[i].visual_elements) = Cardinality(MediaWithUrl(sc[i]))
                   /\ Len(ma) = Cardinality(AllMediaWithUrl(sc))
                   /\ \A j \in 1..Len(ma) : ma[j].id.n = base + j

\* A scene whose media items all lack a url (one of them has the empty
\* string) is in the timeline with no visual element, and a later scene's
\* media item was registered.
C7_Witness ==
    \E r \in Reqs :
        /\ Ok(r)
        /\ Len(InScenes(r)) = 2
        /\ Len(Get(InScenes(r)[1].f, "media", List(<<>>)).items) = 2
        /\ MediaWithUrl(InScenes(r)[1]) = {}
        /\ Get(InScenes(r)[1].f, "media", List(<<>>)).items[1].f = [url |-> ""]
        /\ resp[r].json.timeline[1].visual_elements = <<>>
        /\ Len(resp[r].json.timeline[2].visual_elements) = 1

RECURSIVE SumDurations(_, _)
SumDurations(sc, n) ==
    IF n = 0 THEN 0
    ELSE SumDurations(sc, n - 1) + Get(sc[n].f, "duration", Num(5)).v

\* C8: in every 200 response the first scene starts at 0, every later scene
\* starts where the one before it ends, every narration entry starts at its
\* scene's start, and project_settings.duration_seconds is the sum of the
\* scenes' durations.
C8_DurationIsSum ==
    \A r \in Reqs :
        Ok(r) =>
            LET sc == InScenes(r)
                out == resp[r].json
                tl == out.timeline
            IN  /\ \A i \in 1..Len(tl) :
                      /\ tl[i].start_time_seconds = SumDurations(sc, i - 1)
                      /\ \A a \in 1..Len(tl[i].audio_elements) :
                            \A v \in 1..Len(out.voiceover) :
                                out.voiceover[v].id = tl[i].audio_elements[a].asset_id
                                => out.voiceover[v].start_time_seconds = tl[i].start_time_seconds
                /\ out.duration_seconds = SumDurations(sc, Len(sc))

\* The asset references of an output, each with the url it carries (None for
\* a reference that carries no url).
Refs(out) ==
    {[id |-> out.voiceover[v].id, url |-> out.voiceover[v].url] : v \in 1..Len(out.voiceover)}
    \cup {[id |-> out.sound_effects[x].asset_id, url |-> out.sound_effects[x].url] :
              x \in 1..Len(out.sound_effects)}
    \cup (IF out.background_music = EmptyObject THEN {}
          ELSE {[id |-> out.background_music.asset_id, url |-> out.background_music.url]})
    \cup UNION {{[id |-> out.timeline[i].visual_elements[k].asset_id, url |-> None] :
                     k \in 1..Len(out.timeline[i].visual_elements)}
                \cup {[id |-> out.timeline[i].audio_elements[k].asset_id, url |-> None] :
                     k \in 1..Len(out.timeline[i].audio_elements)} :
                i \in 1..Len(out.timeline)}

\* C9: in every 200 response the ids in media_assets are pairwise distinct,
\* every asset reference names exactly one media_assets entry, which has the
\* reference's url, and media_assets has one entry for a given background
\* music url, one per sound effect with a url, one per media item with a url
\* and one per scene with a narration url.
C9_AssetsConsistent ==
    \A r \in Reqs :
        Ok(r) =>
            LET out == resp[r].json
                as == out.media_assets
                sc == InScenes(r)
                sfx == Get(Fd(r), "sound_effects", List(<<>>)).items
            IN  /\ \A i, j \in 1..Len(as) : as[i].id = as[j].id => i = j
                /\ \A ref \in Refs(out) :
                      /\ Cardinality({i \in 1..Len(as) : as[i].id = ref.id}) = 1
                      /\ \A i \in 1..Len(as) :
                            (as[i].id = ref.id /\ ref.url # None) => as[i].url = ref.url
                /\ Len(as) =
                      (IF UrlGiven(Fd(r), "background_music_url") THEN 1 ELSE 0)
                      + Cardinality({x \in 1..Len(sfx) : UrlGiven(sfx[x].f, "url")})
                      + Cardinality(AllMediaWithUrl(sc))
                      + Cardinality({i \in 1..Len(sc) : UrlGiven(sc[i].f, "audio_url")})

\* Two scenes with one media url each, the first with a narration url, have
\* registered three assets.
C9_Witness ==
    \E r \in Reqs :
        /\ Ok(r)
        /\ Len(InScenes(r)) = 2
        /\ \A i \in 1..2 : Cardinality(MediaWithUrl(InScenes(r)[i])) = 1
        /\ UrlGiven(InScenes(r)[1].f, "audio_url")
        /\ ~UrlGiven(InScenes(r)[2].f, "audio_url")
        /\ Len(resp[r].json.media_assets) = 3
        /\ Len(resp[r].json.voiceover) = 1

\* C10: whatever the interleaving of the two requests, a served request has
\* the response that the handler gives to its body when it runs alone.
C10_RequestsIsolated ==
    \A r \in Reqs : Served(r) => resp[r] = GenerateVideoJson(request[r])

\* Both requests were served with 200, each with its own output in which
\* assets were registered.
C10_Witness ==
    /\ \A r \in Reqs : Ok(r) /\ Len(resp[r].json.media_assets) >= 2
    /\ resp[1].json # resp[2].json

====
